---------------------------- MODULE Spec2Model ----------------------------
(***************************************************************************)
(* The ChaCha stream ciphers of stream-ciphers/chacha/src/lib.rs: the      *)
(* round function, the narrow and the wide refill, the keystream buffer    *)
(* (Buffer::try_apply_keystream), construction and seek of ChaChaAny.      *)
(*                                                                         *)
(* Machine integers keep their width.  TLC's integers stop at 2^31 - 1, so *)
(* a u32 is a pair <<lo, hi>> of 16-bit limbs and a u64 a tuple            *)
(* <<l0, l1, l2, l3>> of 16-bit limbs, least significant first.  usize     *)
(* lengths of caller buffers and the i8 `have` are plain integers: they    *)
(* stay far below 2^31.                                                    *)
(*                                                                         *)
(* TLC evaluates a LET definition again at each use but an operator's      *)
(* argument once.  A value the code computes once and uses several times   *)
(* is therefore handed on as an argument: where the code has               *)
(* `let x = e; .. x .. x ..` the model has f(..) == f_x(.., e).            *)
(***************************************************************************)
EXTENDS Integers, Sequences, FiniteSets, TLC

(***************************************************************************)
(* Program constants (lib.rs 38-48).                                       *)
(***************************************************************************)
BLOCK == 64
BLOCK64 == BLOCK
BLOCKWORDS == BLOCK \div 4
LOG2_BUFBLOCKS == 2
BUFBLOCKS == 2 ^ LOG2_BUFBLOCKS
BUFSZ64 == BLOCK64 * BUFBLOCKS
BUFSZ == BUFSZ64
BUFWORDS == (BLOCK64 * BUFBLOCKS) \div 4
BIG_LEN == <<0, 0, 0, 0>>
SMALL_LEN == <<0, 0, 1, 0>>

(***************************************************************************)
(* 16-bit limbs.                                                           *)
(***************************************************************************)
LIMB == 2 ^ 16

RECURSIVE xor_bits(_, _, _)
xor_bits(a, b, n) ==
    IF n = 0 THEN 0
    ELSE ((a + b) % 2) + 2 * xor_bits(a \div 2, b \div 2, n - 1)

\* u8 ^ u8, tabulated once.
XorByte == [a \in 0..255 |-> [b \in 0..255 |-> xor_bits(a, b, 8)]]

xor16(a, b) ==
    XorByte[a \div 256][b \div 256] * 256 + XorByte[a % 256][b % 256]

(***************************************************************************)
(* u32 operations, as the lanes of u32x4 use them.                         *)
(***************************************************************************)
\* The u32 with high half hi and low half lo, e.g. 0x61707865 = u32(24944, 30821).
u32(hi, lo) == <<lo, hi>>

\* u32 from a small non-negative integer.
u32_from(n) == <<n % LIMB, n \div LIMB>>

\* `+` of u32x4 lanes: addition modulo 2^32.
wrapping_add(x, y) ==
    LET lo == x[1] + y[1]
        hi == x[2] + y[2] + (lo \div LIMB)
    IN  <<lo % LIMB, hi % LIMB>>

\* `^` of u32x4 lanes.
bitxor(x, y) == <<xor16(x[1], y[1]), xor16(x[2], y[2])>>

\* Rotation to the left by 0 < r < 16 bits.
rotl_small(x, r) ==
    LET p == 2 ^ r
        q == 2 ^ (16 - r)
    IN  <<((x[1] * p) % LIMB) + (x[2] \div q), ((x[2] * p) % LIMB) + (x[1] \div q)>>

\* u32::rotate_left, 0 < r < 32.
rotate_left(x, r) ==
    IF r = 16 THEN <<x[2], x[1]>>
    ELSE IF r < 16 THEN rotl_small(x, r)
    ELSE rotl_small(<<x[2], x[1]>>, r - 16)

\* The four little-endian bytes of a word (to_le and the byte view of the union).
to_le_bytes(w) == <<w[1] % 256, w[1] \div 256, w[2] % 256, w[2] \div 256>>

\* read_u32 reading big-endian, to test that ConstructionState depends on
\* the byte order.
read_u32_be(s, i) == <<s[i + 3] + 256 * s[i + 2], s[i + 1] + 256 * s[i]>>

\* LE::read_u32 of bytes s[i], s[i+1], s[i+2], s[i+3] (1-based i).
read_u32(s, i) == <<s[i] + 256 * s[i + 1], s[i + 2] + 256 * s[i + 3]>>

(***************************************************************************)
(* u32x4: a tuple of four lanes, lane 0 first.  The vector type comes from *)
(* crypto_simd / ppv_null; its operations are lane-wise.                   *)
(***************************************************************************)
\* u32x4::new(0x61707865, 0x3320646e, 0x79622d32, 0x6b206574)
k == <<u32(24944, 30821), u32(13088, 25710), u32(31074, 11570), u32(27424, 25972)>>

vadd(u, v) ==
    <<wrapping_add(u[1], v[1]), wrapping_add(u[2], v[2]),
      wrapping_add(u[3], v[3]), wrapping_add(u[4], v[4])>>

vxor(u, v) ==
    <<bitxor(u[1], v[1]), bitxor(u[2], v[2]), bitxor(u[3], v[3]), bitxor(u[4], v[4])>>

\* The name is the library's: the lanes are rotated by 32 - r bits to the LEFT
\* (16, 12, 8 and 7 for r = 16, 20, 24, 25), which is what the keystream of the
\* published vectors requires.
splat_rotate_right(v, r) ==
    <<rotate_left(v[1], 32 - r), rotate_left(v[2], 32 - r),
      rotate_left(v[3], 32 - r), rotate_left(v[4], 32 - r)>>

\* Lane i of v becomes lane (i + n) mod 4 of the result.
rotate_words_right(v, n) ==
    <<v[((4 - n) % 4) + 1], v[((5 - n) % 4) + 1], v[((6 - n) % 4) + 1], v[((7 - n) % 4) + 1]>>

\* u32x4::extract and u32x4::replace, lanes 0..3.
extract(v, i) == v[i + 1]
replace(v, i, w) == [v EXCEPT ![i + 1] = w]

(***************************************************************************)
(* impl_round!: the state X4 {a, b, c, d} and its round (lib.rs 76-116).   *)
(***************************************************************************)
X4(a, b, c, d) == [a |-> a, b |-> b, c |-> c, d |-> d]

\* x.a += x.b; x.d ^= x.a; x.d = x.d.splat_rotate_right(r);   (a is x.a + x.b)
round_ad_a(x, a, r) == X4(a, x.b, x.c, splat_rotate_right(vxor(x.d, a), r))
round_ad(x, r) == round_ad_a(x, vadd(x.a, x.b), r)

\* x.c += x.d; x.b ^= x.c; x.b = x.b.splat_rotate_right(r);   (c is x.c + x.d)
round_cb_c(x, c, r) == X4(x.a, splat_rotate_right(vxor(x.b, c), r), c, x.d)
round_cb(x, r) == round_cb_c(x, vadd(x.c, x.d), r)

\* round with the rotations of its second and third steps exchanged, to test
\* that Rfc7539Block1 depends on the rounds.
round_exchanged(x) == round_cb(round_ad(round_cb(round_ad(x, 16), 24), 20), 25)

round(x) == round_cb(round_ad(round_cb(round_ad(x, 16), 20), 24), 25)

diagonalize(x) ==
    X4(x.a, rotate_words_right(x.b, 3), rotate_words_right(x.c, 2),
       rotate_words_right(x.d, 1))

undiagonalize(x) ==
    X4(x.a, rotate_words_right(x.b, 1), rotate_words_right(x.c, 2),
       rotate_words_right(x.d, 3))

\* for _ in 0..drounds { x = round(x); x = undiagonalize(round(diagonalize(x))); }
\* (x = x makes TLC evaluate one pass of the loop before it starts the next.)
RECURSIVE double_rounds(_, _)
double_rounds(x, drounds) ==
    IF drounds = 0 \/ x # x THEN x
    ELSE double_rounds(undiagonalize(round(diagonalize(round(x)))), drounds - 1)

(***************************************************************************)
(* u64 operations.                                                         *)
(***************************************************************************)
\* u64 from a non-negative integer below 2^31.
u64_from(n) == <<n % LIMB, n \div LIMB, 0, 0>>

\* u64::from(lo) | (u64::from(hi) << 32)
u64_of_lanes(lo, hi) == <<lo[1], lo[2], hi[1], hi[2]>>

\* x as u32, and (x >> 32) as u32
low_u32(x) == <<x[1], x[2]>>
high_u32(x) == <<x[3], x[4]>>

\* u64::overflowing_add: <<sum modulo 2^64, carry out>>
overflowing_add(x, y) ==
    LET s0 == x[1] + y[1]
        s1 == x[2] + y[2] + (s0 \div LIMB)
        s2 == x[3] + y[3] + (s1 \div LIMB)
        s3 == x[4] + y[4] + (s2 \div LIMB)
    IN  <<(<<s0 % LIMB, s1 % LIMB, s2 % LIMB, s3 % LIMB>>), s3 >= LIMB>>

\* u64::overflowing_sub: <<difference modulo 2^64, borrow out>>
overflowing_sub(x, y) ==
    LET d0 == x[1] - y[1]
        b0 == IF d0 < 0 THEN 1 ELSE 0
        d1 == x[2] - y[2] - b0
        b1 == IF d1 < 0 THEN 1 ELSE 0
        d2 == x[3] - y[3] - b1
        b2 == IF d2 < 0 THEN 1 ELSE 0
        d3 == x[4] - y[4] - b2
    IN  <<(<<(d0 + LIMB) % LIMB, (d1 + LIMB) % LIMB,
             (d2 + LIMB) % LIMB, (d3 + LIMB) % LIMB>>), d3 < 0>>

wrapping_add64(x, y) == overflowing_add(x, y)[1]
wrapping_sub(x, y) == overflowing_sub(x, y)[1]

\* x < y on u64
lt64(x, y) == overflowing_sub(x, y)[2]

\* ct / BLOCK64 and ct % BLOCK64
div_BLOCK64(ct) ==
    LET m == LIMB \div BLOCK64
    IN  <<(ct[1] \div BLOCK64) + (ct[2] % BLOCK64) * m,
          (ct[2] \div BLOCK64) + (ct[3] % BLOCK64) * m,
          (ct[3] \div BLOCK64) + (ct[4] % BLOCK64) * m,
          ct[4] \div BLOCK64>>
mod_BLOCK64(ct) == ct[1] % BLOCK64

\* blockct * BLOCK64, as it wraps at 2^64: the offset at which a block starts.
mul_BLOCK64(blockct) ==
    LET m == LIMB \div BLOCK64
    IN  <<(blockct[1] % m) * BLOCK64,
          (blockct[2] % m) * BLOCK64 + (blockct[1] \div m),
          (blockct[3] % m) * BLOCK64 + (blockct[2] \div m),
          (blockct[4] % m) * BLOCK64 + (blockct[3] \div m)>>

(***************************************************************************)
(* The cipher types (lib.rs 576-580): the type parameters NonceSize,       *)
(* Rounds and IsX of ChaChaAny.                                            *)
(***************************************************************************)
ChaChaAny(NonceSize, Rounds, IsX) ==
    [NonceSize |-> NonceSize, Rounds |-> Rounds, IsX |-> IsX]
Ietf == ChaChaAny(12, 10, FALSE)
ChaCha20 == ChaChaAny(8, 10, FALSE)
ChaCha12 == ChaChaAny(8, 6, FALSE)
ChaCha8 == ChaChaAny(8, 4, FALSE)
XChaCha20 == ChaChaAny(24, 10, TRUE)

(***************************************************************************)
(* The keys and nonces of the repository's tests (lib.rs 586-788), as the  *)
(* bytes hex!(..) yields.                                                  *)
(***************************************************************************)
Fixture(ty, key, nonce) == [ty |-> ty, key |-> key, nonce |-> nonce]

chacha20_case_1_key ==
    <<
      250, 68, 71, 140, 89, 202, 112, 83, 142, 53, 73, 9, 108, 232, 181, 35,
      35, 44, 80, 217, 232, 232, 209, 12, 32, 62, 246, 200, 208, 112, 152, 165>>
chacha20_case_1_nonce ==
    <<
      141, 58, 13, 109, 120, 39, 192, 7>>
chacha20_case_1 == Fixture(ChaCha20, chacha20_case_1_key, chacha20_case_1_nonce)

chacha12_case_1_key ==
    <<
      39, 252, 18, 11, 1, 59, 130, 159, 31, 174, 239, 209, 171, 65, 126, 134,
      98, 244, 62, 13, 115, 249, 141, 232, 102, 227, 70, 53, 49, 128, 253, 183>>
chacha12_case_1_nonce ==
    <<
      219, 75, 74, 65, 216, 223, 24, 170>>
chacha12_case_1 == Fixture(ChaCha12, chacha12_case_1_key, chacha12_case_1_nonce)

chacha8_case_1_key ==
    <<
      100, 26, 234, 235, 8, 3, 107, 97, 122, 66, 207, 20, 232, 197, 210, 209,
      21, 248, 215, 203, 110, 165, 226, 139, 155, 250, 248, 62, 3, 132, 38, 167>>
chacha8_case_1_nonce ==
    <<
      161, 74, 17, 104, 39, 29, 69, 155>>
chacha8_case_1 == Fixture(ChaCha8, chacha8_case_1_key, chacha8_case_1_nonce)

test_ietf_key ==
    <<
      0, 1, 2, 3, 4, 5, 6, 7, 8, 9, 10, 11, 12, 13, 14, 15,
      16, 17, 18, 19, 20, 21, 22, 23, 24, 25, 26, 27, 28, 29, 30, 31>>
test_ietf_nonce ==
    <<
      0, 0, 0, 9, 0, 0, 0, 74, 0, 0, 0, 0>>
test_ietf == Fixture(Ietf, test_ietf_key, test_ietf_nonce)

rfc_7539_case_2_key ==
    <<
      0, 1, 2, 3, 4, 5, 6, 7, 8, 9, 10, 11, 12, 13, 14, 15,
      16, 17, 18, 19, 20, 21, 22, 23, 24, 25, 26, 27, 28, 29, 30, 31>>
rfc_7539_case_2_nonce ==
    <<
      0, 0, 0, 0, 0, 0, 0, 74, 0, 0, 0, 0>>
rfc_7539_case_2 == Fixture(Ietf, rfc_7539_case_2_key, rfc_7539_case_2_nonce)

xchacha20_case_1_key ==
    <<
      130, 244, 17, 160, 116, 246, 86, 198, 110, 125, 189, 219, 10, 44, 27, 34,
      118, 11, 155, 33, 5, 244, 255, 219, 177, 212, 177, 232, 36, 226, 29, 239>>
xchacha20_case_1_nonce ==
    <<
      59, 7, 202, 110, 114, 158, 180, 74, 81, 11, 122, 27, 229, 24, 71, 131,
      138, 128, 79, 139, 16, 107, 56, 189>>
xchacha20_case_1 == Fixture(XChaCha20, xchacha20_case_1_key, xchacha20_case_1_nonce)

seek_off_end_key ==
    <<
      255, 255, 255, 255, 255, 255, 255, 255, 255, 255, 255, 255, 255, 255, 255, 255,
      255, 255, 255, 255, 255, 255, 255, 255, 255, 255, 255, 255, 255, 255, 255, 255>>
seek_off_end_nonce ==
    <<
      0, 0, 0, 0, 0, 0, 0, 0, 0, 0, 0, 0>>
seek_off_end == Fixture(Ietf, seek_off_end_key, seek_off_end_nonce)

seek_consistency_key ==
    <<
      50, 50, 50, 50, 50, 50, 50, 50, 50, 50, 50, 50, 50, 50, 50, 50,
      50, 50, 50, 50, 50, 50, 50, 50, 50, 50, 50, 50, 50, 50, 50, 50>>
seek_consistency_nonce ==
    <<
      44, 44, 44, 44, 44, 44, 44, 44, 44, 44, 44, 44>>
seek_consistency == Fixture(Ietf, seek_consistency_key, seek_consistency_nonce)

\* let expected = hex!("10f1e7e4 ... a2503c4e") of test_ietf and rfc_7539_case_1:
\* the block of RFC 7539 section 2.4.2.
expected_rfc_7539 ==
    <<
      16, 241, 231, 228, 209, 59, 89, 21, 80, 15, 221, 31, 163, 32, 113, 196,
      199, 209, 244, 199, 51, 192, 104, 3, 4, 34, 170, 154, 195, 212, 108, 78,
      210, 130, 100, 70, 7, 159, 170, 9, 20, 194, 215, 5, 217, 139, 2, 162,
      181, 18, 156, 209, 222, 22, 78, 185, 203, 208, 131, 232, 162, 80, 60, 78>>

\* let expected = hex!("1546a547 ... 47bf41e8") of chacha20_case_1 (lib.rs 590-595).
expected_chacha20_case_1 ==
    <<
      21, 70, 165, 71, 255, 119, 197, 201, 100, 228, 79, 208, 57, 233, 19, 198,
      57, 92, 143, 25, 212, 62, 250, 168, 128, 117, 15, 102, 135, 180, 230, 226,
      216, 244, 47, 99, 84, 109, 162, 209, 51, 181, 170, 47, 30, 243, 242, 24,
      182, 199, 41, 67, 8, 158, 64, 18, 33, 12, 44, 190, 208, 232, 233, 52,
      152, 166, 130, 95, 200, 255, 122, 80, 79, 38, 219, 51, 182, 203, 227, 98,
      153, 67, 98, 68, 201, 178, 239, 248, 131, 2, 197, 89, 51, 145, 27, 125,
      93, 234, 117, 242, 182, 212, 118, 27, 164, 75, 182, 248, 20, 201, 135, 157,
      43, 162, 172, 139, 23, 143, 161, 16, 74, 54, 134, 148, 135, 35, 57, 115,
      143, 251, 150, 14, 51, 219, 57, 239, 184, 234, 239, 136, 91, 145, 14, 234,
      7, 142, 122, 31, 235, 63, 129, 133, 218, 253, 20, 85, 183, 4, 215, 109,
      163, 160, 206, 71, 96, 116, 24, 65, 33, 123, 186, 30, 78, 206, 118, 14,
      175, 104, 97, 113, 51, 67, 31, 235, 128, 108, 6, 17, 115, 175, 107, 139,
      42, 35, 190, 144, 197, 209, 69, 204, 37, 142, 60, 17, 154, 171, 40, 0,
      240, 199, 188, 25, 89, 218, 231, 84, 129, 113, 44, 171, 115, 27, 125, 253,
      120, 63, 163, 162, 40, 249, 150, 138, 174, 166, 143, 54, 169, 47, 67, 201,
      181, 35, 51, 122, 85, 185, 123, 202, 245, 245, 119, 68, 71, 191, 65, 232>>

(***************************************************************************)
(* struct ChaCha {b, c, d}, struct Buffer {state, out, have, len, fresh}   *)
(* and struct ChaChaAny {state} (lib.rs 129-134, 339-346, 411-417).        *)
(***************************************************************************)
ChaCha(b, c, d) == [b |-> b, c |-> c, d |-> d]
Buffer(state, out, have, len, fresh) ==
    [state |-> state, out |-> out, have |-> have, len |-> len, fresh |-> fresh]

\* Block::default(): sixteen zero words, sixty-four zero bytes.
Block_default == [i \in 1..BLOCK |-> 0]

\* The byte view of the words a refill wrote (union Block / union WordBytes
\* after to_le): each word's four little-endian bytes, in order.
RECURSIVE bytes_of(_)
bytes_of(words) ==
    IF words = <<>> THEN <<>>
    ELSE to_le_bytes(Head(words)) \o bytes_of(Tail(words))

(***************************************************************************)
(* Construction (lib.rs 419-538).  new_O is the impl for                   *)
(* ChaChaAny<NonceSize, Rounds, O>, new_X the impl for                     *)
(* ChaChaAny<U24, Rounds, X>; N is NonceSize, and indices are 1-based.     *)
(***************************************************************************)
key_row(key, i) ==
    <<read_u32(key, i), read_u32(key, i + 4), read_u32(key, i + 8), read_u32(key, i + 12)>>

new_O(ty, key, nonce) ==
    LET N == ty.NonceSize
        ctr_nonce == <<u32_from(0),
                       IF N = 12 THEN read_u32(nonce, 1) ELSE u32_from(0),
                       read_u32(nonce, N - 8 + 1),
                       read_u32(nonce, N - 4 + 1)>>
        key0 == key_row(key, 1)
        key1 == key_row(key, 17)
        state == ChaCha(key0, key1, ctr_nonce)
    IN  [state |-> Buffer(state, Block_default, 0,
                          IF N = 12 THEN SMALL_LEN ELSE BIG_LEN,
                          N # 12)]

\* x is the X4 {a: k, b: key0, c: key1, d: nonce0} after the rounds.
new_X_x(x, ctr_nonce1) ==
    [state |-> Buffer(ChaCha(x.a, x.d, ctr_nonce1), Block_default, 0, BIG_LEN, TRUE)]

new_X(ty, key, nonce) ==
    LET key0 == key_row(key, 1)
        key1 == key_row(key, 17)
        nonce0 == key_row(nonce, 1)
        ctr_nonce1 == <<u32_from(0), u32_from(0), read_u32(nonce, 17), read_u32(nonce, 21)>>
    IN  new_X_x(double_rounds(X4(k, key0, key1, nonce0), ty.Rounds), ctr_nonce1)

new(ty, key, nonce) ==
    IF ty.IsX THEN new_X(ty, key, nonce) ELSE new_O(ty, key, nonce)

(***************************************************************************)
(* The inputs of the bounded runs.                                         *)
(***************************************************************************)
\* The most seeks and the most try_apply_keystream calls of one run.
MaxSeeks == 2
MaxCalls == 2

\* 2^32 * 64 = 0x40_0000_0000, the IETF horizon in bytes (lib.rs 740).
HORIZON == <<0, 0, BLOCK64, 0>>
U64_MAX == <<LIMB - 1, LIMB - 1, LIMB - 1, LIMB - 1>>
Before(ct, n) == wrapping_sub(ct, u64_from(n))
After(ct, n) == wrapping_add64(ct, u64_from(n))

\* A harness: a cipher of one of the repository's tests, the byte the caller's
\* data holds before each call, the builds (TRUE: arithmetic overflow is
\* checked, as in a debug build; FALSE: it wraps), the offsets given to seek
\* and the lengths of the caller's data.
Harness(name, fixture, fillbyte, builds, offsets, lens) ==
    [name |-> name, fixture |-> fixture, fill |-> fillbyte, builds |-> builds,
     offsets |-> offsets, lens |-> lens]

\* test_ietf and rfc_7539_case_1 (lib.rs 640-674): the start of the keystream,
\* block-aligned and not.
rfc_7539_case_1 ==
    Harness("rfc_7539_case_1", test_ietf, 0, {TRUE},
            {u64_from(0), u64_from(10), u64_from(64)},
            {0, 10, 64, 128})

\* seek_off_end and read_last_bytes (lib.rs 734-758): the last block before
\* the horizon, the horizon and the offset after it.
read_last_bytes ==
    Harness("read_last_bytes", seek_off_end, 165, {FALSE},
            {u64_from(0), Before(HORIZON, 64), Before(HORIZON, 10), HORIZON,
             After(HORIZON, 1)},
            {0, 10, 11, 64})

\* seek_consistency's cipher (lib.rs 760-788) at the last blocks before the
\* horizon: requests served by the residue, a wide refill and narrow refills.
last_buffer ==
    Harness("last_buffer", seek_consistency, 165, {TRUE},
            {Before(HORIZON, 340), Before(HORIZON, 256)},
            {10, 128, 256, 330})

\* chacha8_case_1's cipher (lib.rs 624-638), a 64-bit counter: the blocks
\* whose counter low word is within 4 of 2^32, and the last offset of a u64.
chacha8_low_word ==
    Harness("chacha8_low_word", chacha8_case_1, 165, {FALSE},
            {u64_from(0), Before(HORIZON, 192), U64_MAX},
            {0, 128, 256})

\* chacha20_case_1 (lib.rs 586-606): seek(0x3fffffff70), 256 bytes; and an
\* offset inside block 0.
chacha20_low_word ==
    Harness("chacha20_low_word", chacha20_case_1, 0, BOOLEAN,
            {u64_from(10), Before(HORIZON, 144)},
            {0, 1, 256})

\* xchacha20_case_1 (lib.rs 718-732): 100 bytes from the start.
xchacha20_start ==
    Harness("xchacha20_start", xchacha20_case_1, 0, {TRUE},
            {u64_from(0), u64_from(64)},
            {0, 100})

\* The IETF cipher of seek_off_end with a nonce of twelve 0xff bytes, at the
\* last blocks before the horizon: lanes 0 and 1 of state.d, read as one u64,
\* reach u64::MAX there.
nonce_ff == [i \in 1..12 |-> 255]
last_buffer_nonce_ff ==
    Harness("last_buffer_nonce_ff", Fixture(Ietf, seek_off_end_key, nonce_ff), 0, BOOLEAN,
            {Before(HORIZON, 256), Before(HORIZON, 10)},
            {10, 11, 256})

Harnesses ==
    {rfc_7539_case_1, read_last_bytes, last_buffer, chacha8_low_word,
     chacha20_low_word, xchacha20_start, last_buffer_nonce_ff}

\* The arguments of the constructions checked on their own: every type with
\* every key of the tests and every nonce of the tests cut to its length.
Types == {Ietf, ChaCha20, ChaCha12, ChaCha8, XChaCha20}
TestFixtures ==
    {chacha20_case_1, chacha12_case_1, chacha8_case_1, test_ietf, rfc_7539_case_2,
     xchacha20_case_1, seek_off_end, seek_consistency}
Keys == {f.key : f \in TestFixtures}
Nonces(N) == {SubSeq(f.nonce, 1, N) : f \in {g \in TestFixtures : Len(g.nonce) >= N}}

\* The refills checked on their own: the most refills of one run, and the
\* ciphers and the block counters they start from.  The counters lie around
\* the carries of the low word, with the high word 0, 1 and the highest a
\* seek can set; on the IETF ciphers a seek sets the low word only, and the
\* high word is the first word of the nonce.
MaxRefills == 2
RefillLowWords == {<<0, 0>>} \cup {<<LIMB - n, LIMB - 1>> : n \in 1..5}
RefillHighWords == {<<0, 0>>, <<1, 0>>, <<LIMB - 1, (LIMB \div BLOCK64) - 1>>}
RefillBlocks(t) ==
    {u64_of_lanes(l, h) :
         l \in RefillLowWords,
         h \in IF t.NonceSize = 12 THEN {<<0, 0>>} ELSE RefillHighWords}
RefillFixtures ==
    {chacha8_case_1, test_ietf, Fixture(Ietf, seek_off_end_key, nonce_ff)}


(***************************************************************************)
(* The state of a run.                                                     *)
(***************************************************************************)
VARIABLES
    harness,          \* the harness of the run: its cipher, builds and inputs
    ty,               \* the cipher type: NonceSize, Rounds, IsX
    key, nonce,       \* the arguments given to new
    fill,             \* the byte the caller's data holds before each call
    overflow_checks,  \* the build checks arithmetic overflow (debug) or wraps
    cipher,           \* the ChaChaAny, or NoCipher before new
    ret,              \* the last call: its name, its argument, its result
    data,             \* the caller's data after the last try_apply_keystream
    pre,              \* cipher and pos as they were when the last call began
    pos,              \* the offset of the next keystream byte, counted from
                      \* the calls: set by seek, advanced by each Ok call
    run,              \* the calls since construction or the last seek
    seeks, calls,     \* how many seeks and try_apply_keystream calls were made
    dispatch          \* the process-wide dispatch of the refills: the memoized
                      \* pointers and the threads calling through them

vars == <<harness, ty, key, nonce, fill, overflow_checks, cipher, ret, data, pre, pos,
          run, seeks, calls, dispatch>>

NoCipher == [state |-> <<>>]
NoDispatch == [runtime |-> FALSE]

(***************************************************************************)
(* impl ChaCha (lib.rs 220-337).                                           *)
(***************************************************************************)
\* seek32 were it to clear lane 1 as well, to test that SeekFrame depends on
\* the lanes seek32 leaves alone.
seek32_high_cleared(self, blockct) ==
    [self EXCEPT !.d = replace(replace(self.d, 0, blockct), 1, u32_from(0))]

seek32(self, blockct) == [self EXCEPT !.d = replace(self.d, 0, blockct)]

seek64(self, blockct) ==
    [self EXCEPT !.d = replace(replace(self.d, 0, low_u32(blockct)), 1, high_u32(blockct))]

\* (u64::from(d.extract(0)) | (u64::from(d.extract(1)) << 32)) + n, as it
\* wraps at 2^64, and whether it overflows.  The code's + is a plain
\* addition: a build that checks overflow panics where it overflows.  Lanes 0
\* and 1 are read as one u64 whatever the cipher: on the IETF cipher lane 1
\* is the first word of the nonce.
blockct_plus(d, n) ==
    wrapping_add64(u64_of_lanes(extract(d, 0), extract(d, 1)), u64_from(n))
blockct_overflows(d, n) ==
    overflowing_add(u64_of_lanes(extract(d, 0), extract(d, 1)), u64_from(n))[2]

\* The counter stored into lane 0 alone, with no carry into lane 1, to test
\* that ServedByNarrowRefills depends on the refills carrying into lane 1.
with_blockct_low(d, blockct) == replace(d, 0, low_u32(blockct))

\* d.replace(0, blockct as u32).replace(1, (blockct >> 32) as u32)
with_blockct(d, blockct) ==
    replace(replace(d, 0, low_u32(blockct)), 1, high_u32(blockct))

\* The words of one block: the rows of x (the X4 after the rounds) plus the
\* rows added back, k, b, c and the counter row dd.
block_words(x, b, c, dd) == vadd(x.a, k) \o vadd(x.b, b) \o vadd(x.c, c) \o vadd(x.d, dd)

\* What a refill hands back: the ChaCha state after it, the words written and
\* whether it panicked.
Refilled(self, words, panic) == [self |-> self, words |-> words, panic |-> panic]

\* refill_narrow_impl (lib.rs 307-333).
\* The words are written before blockct1 is computed (lib.rs 322-330): a
\* panic there leaves them written and self.d as it was.
refill_narrow_impl(self, drounds) ==
    Refilled(IF overflow_checks /\ blockct_overflows(self.d, 1)
             THEN self
             ELSE [self EXCEPT !.d = with_blockct(self.d, blockct_plus(self.d, 1))],
             block_words(double_rounds(X4(k, self.b, self.c, self.d), drounds),
                         self.b, self.c, self.d),
             overflow_checks /\ blockct_overflows(self.d, 1))

\* The counter rows of the four blocks as computed BEFORE the rounds
\* (lib.rs 240-249): d3 is d2 + u32x4::new(1, 0, 0, 0), a lane-wise add.
wide_rows_in(d) ==
    LET blockct1 == blockct_plus(d, 1)
        d1 == with_blockct(d, blockct1)
        blockct2 == wrapping_add64(blockct1, u64_from(1))
        d2 == with_blockct(d1, blockct2)
        d3 == vadd(d2, <<u32_from(1), u32_from(0), u32_from(0), u32_from(0)>>)
    IN  <<d, d1, d2, d3>>

\* The counter rows as computed AFTER the rounds, for the add-back
\* (lib.rs 261-273): d3 is d1 with the counter blockct1 + 2.
wide_rows_out(d) ==
    LET blockct1 == blockct_plus(d, 1)
        d1 == with_blockct(d, blockct1)
        blockct2 == wrapping_add64(blockct1, u64_from(1))
        d2 == with_blockct(d1, blockct2)
        blockct3 == wrapping_add64(blockct1, u64_from(2))
        d3 == with_blockct(d1, blockct3)
    IN  <<d, d1, d2, d3>>

\* The state after a wide refill, were the four added to lane 0 alone, with
\* no carry into lane 1, to test that RefillAdvance depends on the carry.
wide_next_d_lanewise(d) ==
    vadd(d, <<u32_from(BUFBLOCKS), u32_from(0), u32_from(0), u32_from(0)>>)

\* The state after a wide refill (lib.rs 301-304): d3 of the add-back with
\* the counter blockct2 + 2.
wide_next_d(d) ==
    with_blockct(wide_rows_out(d)[4], wrapping_add64(blockct_plus(d, 2), u64_from(2)))

\* refill_wide_impl (lib.rs 236-305); din and dout are wide_rows_in and
\* wide_rows_out of self.d.  The rounds over u32x4x4: every operation of
\* wide::round, diagonalize and undiagonalize acts on each of the four u32x4
\* parts as the narrow one does, so part i of x after the rounds is the narrow
\* rounds of part i.
refill_wide_rows(self, drounds, din, dout) ==
    Refilled([self EXCEPT !.d = wide_next_d(self.d)],
             block_words(double_rounds(X4(k, self.b, self.c, din[1]), drounds),
                         self.b, self.c, self.d)
             \o block_words(double_rounds(X4(k, self.b, self.c, din[2]), drounds),
                            self.b, self.c, dout[2])
             \o block_words(double_rounds(X4(k, self.b, self.c, din[3]), drounds),
                            self.b, self.c, dout[3])
             \o block_words(double_rounds(X4(k, self.b, self.c, din[4]), drounds),
                            self.b, self.c, dout[4]),
             FALSE)

\* blockct1, blockct2, blockct3 and blockct4 are the counter plus 1, 2, 3
\* and 4 (lib.rs 240, 245, 261, 266, 270, 301), each a plain addition: one of
\* them overflows exactly when the counter plus 4 does.  A panic at any of
\* them leaves self.d as it was, and the words, written or not, are those of
\* a buffer the caller drops.
refill_wide_impl(self, drounds) ==
    IF overflow_checks /\ blockct_overflows(self.d, BUFBLOCKS)
    THEN Refilled(self, <<>>, TRUE)
    ELSE refill_wide_rows(self, drounds, wide_rows_in(self.d), wide_rows_out(self.d))

\* impl_dispatch!: whichever target feature is detected, the function called
\* runs the same $fn_impl.
refill_wide(self, drounds) == refill_wide_impl(self, drounds)
refill_narrow(self, drounds) == refill_narrow_impl(self, drounds)

(***************************************************************************)
(* impl Buffer (lib.rs 348-404).                                           *)
(***************************************************************************)
min(a, b) == IF a < b THEN a ELSE b

\* for (data_b, key_b) in d.iter_mut().zip(keystream) { *data_b ^= *key_b }
\* zip stops at the shorter of the two.
xor_zip(d, keystream) ==
    [i \in 1..min(Len(d), Len(keystream)) |-> XorByte[d[i]][keystream[i]]]
        \o SubSeq(d, Len(keystream) + 1, Len(d))

\* What try_apply_keystream hands back: "Ok", "Err" or "panic", the Buffer
\* after the call and the caller's data after the call.
Applied(res, self, data_out) == [res |-> res, self |-> self, data |-> data_out]

\* datalen / BLOCK64 + 1, one block more where the data ends a block, to
\* test that EmptyCallNoOp depends on the blocks an empty call needs.
blocks_needed_one_more(datalen) == (datalen \div BLOCK64) + 1

\* datalen / BLOCK64 + u64::from(datalen % BLOCK64 != 0)
blocks_needed_of(datalen) ==
    (datalen \div BLOCK64) + (IF datalen % BLOCK64 # 0 THEN 1 ELSE 0)

\* data.len() & !(BUFSZ - 1) (lib.rs 383): the bytes the wide chunks serve.
wide_len(n) == n - (n % BUFSZ)

\* if o && !self.fresh { return Err(LoopError); }
refuses(o, fresh) == o /\ ~fresh

\* for dd in d0.chunks_exact_mut(BUFSZ) (lib.rs 384-390): the ChaCha state
\* after the chunks and the chunks after the XOR.  done are the bytes of the
\* chunks already served, r the refill of this chunk.
RECURSIVE wide_chunks(_, _, _, _)
wide_chunk(r, done, d0, drounds) ==
    IF r.panic THEN [state |-> r.self, data |-> done \o d0, panic |-> TRUE]
    ELSE wide_chunks(r.self, done \o xor_zip(SubSeq(d0, 1, BUFSZ), bytes_of(r.words)),
                     SubSeq(d0, BUFSZ + 1, Len(d0)), drounds)
wide_chunks(state, done, d0, drounds) ==
    IF d0 = <<>> THEN [state |-> state, data |-> done, panic |-> FALSE]
    ELSE wide_chunk(refill_wide(state, drounds), done, d0, drounds)

\* for dd in data.chunks_mut(BLOCK) (lib.rs 393-400): each chunk refills out
\* and sets have.  out1 is out after the refill of this chunk.
RECURSIVE narrow_chunks(_, _, _, _, _, _)
\* The chunk with have set to dd.len() - BLOCK, the operands exchanged, to
\* test that HaveRange depends on the have a narrow chunk leaves.
narrow_chunk_out_exchanged(state, out1, done, d1, drounds, n) ==
    narrow_chunks(state, out1, n - BLOCK, done \o xor_zip(SubSeq(d1, 1, n), out1),
                  SubSeq(d1, n + 1, Len(d1)), drounds)

\* The chunk with have set to dd.len(), the bytes used and not the bytes
\* left, to test that PositionOfCounterAndHave depends on have.
narrow_chunk_out_used(state, out1, done, d1, drounds, n) ==
    narrow_chunks(state, out1, n, done \o xor_zip(SubSeq(d1, 1, n), out1),
                  SubSeq(d1, n + 1, Len(d1)), drounds)

narrow_chunk_out(state, out1, done, d1, drounds, n) ==
    narrow_chunks(state, out1, BLOCK - n, done \o xor_zip(SubSeq(d1, 1, n), out1),
                  SubSeq(d1, n + 1, Len(d1)), drounds)
narrow_chunk(r, have, done, d1, drounds) ==
    IF r.panic
    THEN [state |-> r.self, out |-> bytes_of(r.words), have |-> have,
          data |-> done \o d1, panic |-> TRUE]
    ELSE narrow_chunk_out(r.self, bytes_of(r.words), done, d1, drounds,
                          min(BLOCK, Len(d1)))
narrow_chunks(state, out, have, done, d1, drounds) ==
    IF d1 = <<>>
    THEN [state |-> state, out |-> out, have |-> have, data |-> done, panic |-> FALSE]
    ELSE narrow_chunk(refill_narrow(state, drounds), have, done, d1, drounds)

\* The end of try_apply_keystream (lib.rs 391-402): t is the narrow tail.
\* self.have is assigned after the loop: a refill that panics leaves it as
\* the call found it (or as the lazy fill left it).
apply_tail(self, t, l, fresh) ==
    IF t.panic
    THEN Applied("panic", Buffer(t.state, t.out, self.have, l, fresh), t.data)
    ELSE Applied("Ok", Buffer(t.state, t.out, t.have, l, fresh), t.data)

\* Residue and wide chunks (lib.rs 372-391): d0 is the residue part of the
\* data after its XOR, d1 the rest of the data, nwide = d1.len() & !(BUFSZ - 1),
\* w the wide chunks served.
apply_wide(self, w, d1, nwide, have, l, fresh, drounds) ==
    IF w.panic
    THEN Applied("panic", Buffer(w.state, self.out, self.have, l, fresh),
                 w.data \o SubSeq(d1, nwide + 1, Len(d1)))
    ELSE apply_tail(self,
                    narrow_chunks(w.state, self.out, have, w.data,
                                  SubSeq(d1, nwide + 1, Len(d1)), drounds),
                    l, fresh)
apply_residue(self, d0, d1, nwide, have, l, fresh, drounds) ==
    apply_wide(self, wide_chunks(self.state, d0, SubSeq(d1, 1, nwide), drounds),
               d1, nwide, have, l, fresh, drounds)

\* The check with self.len committed before it, to test that
\* ErrCommitsOnlyLazyFill depends on the order of the check and the commit.
apply_check_committed(self, data_in, drounds, have, have_ready, blocks_needed, lo) ==
    IF refuses(lo[2], self.fresh)
    THEN Applied("Err", [self EXCEPT !.len = lo[1]], data_in)
    ELSE apply_residue(self,
                       xor_zip(SubSeq(data_in, 1, have_ready),
                               SubSeq(self.out, (BLOCK - have) + 1, BLOCK)),
                       SubSeq(data_in, have_ready + 1, Len(data_in)),
                       wide_len(Len(data_in) - have_ready),
                       have - have_ready, lo[1],
                       self.fresh /\ blocks_needed = 0, drounds)

\* The overflow check and the commit (lib.rs 362-371): lo is
\* self.len.overflowing_sub(blocks_needed).
apply_check(self, data_in, drounds, have, have_ready, blocks_needed, lo) ==
    IF refuses(lo[2], self.fresh)
    THEN Applied("Err", self, data_in)
    ELSE apply_residue(self,
                       xor_zip(SubSeq(data_in, 1, have_ready),
                               SubSeq(self.out, (BLOCK - have) + 1, BLOCK)),
                       SubSeq(data_in, have_ready + 1, Len(data_in)),
                       wide_len(Len(data_in) - have_ready),
                       have - have_ready, lo[1],
                       self.fresh /\ blocks_needed = 0, drounds)

\* lib.rs 360-366: have, have_ready, datalen, blocks_needed, (l, o).
apply_needed(self, data_in, drounds, have, have_ready, blocks_needed) ==
    apply_check(self, data_in, drounds, have, have_ready, blocks_needed,
                overflowing_sub(self.len, u64_from(blocks_needed)))
apply_have(self, data_in, drounds) ==
    apply_needed(self, data_in, drounds, self.have,
                 min(self.have, Len(data_in)),
                 blocks_needed_of(Len(data_in) - min(self.have, Len(data_in))))

\* The lazy fill without its `self.len -= 1`, to test that
\* BudgetTracksCounterReturned depends on the unit the lazy fill takes.
lazy_fill_len_kept(self, r, lo) ==
    IF r.panic
    THEN [panic |-> TRUE,
          self |-> Buffer(r.self, bytes_of(r.words), self.have, self.len, self.fresh)]
    ELSE [panic |-> FALSE,
          self |-> Buffer(r.self, bytes_of(r.words), self.have + BLOCK, self.len,
                          self.fresh)]

\* The lazy fill (lib.rs 353-359), taken when self.have < 0; r is the narrow
\* refill.  A refill that panics leaves have and len as they were.
\* `self.len -= 1` is a plain subtraction: with overflow checks it panics on
\* len = 0 (state, out and have are already updated then), without them it
\* wraps.
lazy_fill(self, r, lo) ==
    IF r.panic
    THEN [panic |-> TRUE,
          self |-> Buffer(r.self, bytes_of(r.words), self.have, self.len, self.fresh)]
    ELSE [panic |-> lo[2] /\ overflow_checks,
          self |-> Buffer(r.self, bytes_of(r.words), self.have + BLOCK,
                          IF lo[2] /\ overflow_checks THEN self.len ELSE lo[1],
                          self.fresh)]

after_lazy_fill(f, data_in, drounds) ==
    IF f.panic THEN Applied("panic", f.self, data_in)
    ELSE apply_have(f.self, data_in, drounds)

\* Buffer::try_apply_keystream (lib.rs 349-403).
try_apply_keystream(self, data_in, drounds) ==
    IF self.have < 0
    THEN after_lazy_fill(lazy_fill(self, refill_narrow(self.state, drounds),
                                   overflowing_sub(self.len, u64_from(1))),
                         data_in, drounds)
    ELSE apply_have(self, data_in, drounds)

(***************************************************************************)
(* impl SyncStreamCipherSeek for ChaChaAny (lib.rs 540-567).               *)
(***************************************************************************)
\* The assertion without its second disjunct, to test that SeekPanics depends
\* on it.
seek_assert_below(blockct, ct) == lt64(blockct, SMALL_LEN)

\* assert!(blockct < SMALL_LEN || (blockct == SMALL_LEN && ct % BLOCK64 == 0))
seek_assert(blockct, ct) ==
    lt64(blockct, SMALL_LEN) \/ (blockct = SMALL_LEN /\ mod_BLOCK64(ct) = 0)

\* seek without its `self.have = -((ct % BLOCK64) as i8)`, to test that
\* NoStaleResidue depends on the have a seek leaves.
seek_have_kept(t, self, ct) ==
    LET blockct == div_BLOCK64(ct)
    IN  IF t.NonceSize # 12
        THEN [panic |-> FALSE,
              self |-> [state |->
                  [self.state EXCEPT !.len = wrapping_sub(BIG_LEN, blockct),
                                     !.state = seek64(self.state.state, blockct),
                                     !.fresh = (blockct = u64_from(0))]]]
        ELSE IF ~seek_assert(blockct, ct)
        THEN [panic |-> TRUE, self |-> self]
        ELSE [panic |-> FALSE,
              self |-> [state |->
                  [self.state EXCEPT !.len = wrapping_sub(SMALL_LEN, blockct),
                                     !.state = seek32(self.state.state, low_u32(blockct))]]]

\* seek on a cipher of type t: whether it panics, and the cipher after it.
seek(t, self, ct) ==
    LET blockct == div_BLOCK64(ct)
        have == -mod_BLOCK64(ct)
    IN  IF t.NonceSize # 12
        THEN [panic |-> FALSE,
              self |-> [state |->
                  [self.state EXCEPT !.len = wrapping_sub(BIG_LEN, blockct),
                                     !.state = seek64(self.state.state, blockct),
                                     !.fresh = (blockct = u64_from(0)),
                                     !.have = have]]]
        ELSE IF ~seek_assert(blockct, ct)
        THEN [panic |-> TRUE, self |-> self]
        ELSE [panic |-> FALSE,
              self |-> [state |->
                  [self.state EXCEPT !.len = wrapping_sub(SMALL_LEN, blockct),
                                     !.state = seek32(self.state.state, low_u32(blockct)),
                                     !.have = have]]]

\* current_pos is unimplemented!(): every call panics and returns nothing.
current_pos(t, self) == [panic |-> TRUE, val |-> <<>>]

(***************************************************************************)
(* The runs: a cipher is constructed, then sought and applied.  A panic    *)
(* ends the run.                                                           *)
(***************************************************************************)
\* A call: its name, its argument, "Ok", "Err" or "panic", and the value it
\* returned (<<>> when it returns none).
Call(op, arg, res, val) == [op |-> op, arg |-> arg, res |-> res, val |-> val]

\* The calls since construction or the last seek: the cipher they started
\* from, whether a seek set it and the offset it was at, the caller's data
\* after the Ok calls, concatenated, and the number of Ok calls.
Run(start, sought, origin, out, oks) ==
    [start |-> start, sought |-> sought, origin |-> origin, out |-> out, oks |-> oks]

\* The cipher and the offset as a call found them.
Pre(c, p) == [cipher |-> c, pos |-> p]

\* n bytes of caller data.
filled(n) == [i \in 1..n |-> fill]

InitOf(h) ==
    /\ harness = h
    /\ ty = h.fixture.ty
    /\ key = h.fixture.key
    /\ nonce = h.fixture.nonce
    /\ fill = h.fill
    /\ overflow_checks \in h.builds
    /\ cipher = NoCipher
    /\ ret = Call("none", <<>>, "Ok", <<>>)
    /\ data = <<>>
    /\ pre = Pre(NoCipher, u64_from(0))
    /\ pos = u64_from(0)
    /\ run = Run(NoCipher, FALSE, u64_from(0), <<>>, 0)
    /\ seeks = 0
    /\ calls = 0
    /\ dispatch = NoDispatch

Init == \E h \in Harnesses : InitOf(h)

Live == cipher # NoCipher /\ ret.res # "panic"

New ==
    /\ cipher = NoCipher
    /\ cipher' = new(ty, key, nonce)
    /\ ret' = Call("new", <<>>, "Ok", <<>>)
    /\ data' = <<>>
    /\ pre' = Pre(cipher, pos)
    /\ pos' = u64_from(0)
    /\ run' = Run(cipher', FALSE, u64_from(0), <<>>, 0)
    /\ UNCHANGED <<harness, ty, key, nonce, fill, overflow_checks, seeks, calls, dispatch>>

Seek(ct) ==
    /\ Live
    /\ seeks < MaxSeeks
    /\ \E r \in {seek(ty, cipher, ct)} :
           /\ cipher' = r.self
           /\ ret' = Call("seek", ct, IF r.panic THEN "panic" ELSE "Ok", <<>>)
           /\ pos' = IF r.panic THEN pos ELSE ct
           /\ run' = IF r.panic THEN run ELSE Run(r.self, TRUE, ct, <<>>, 0)
    /\ data' = <<>>
    /\ pre' = Pre(cipher, pos)
    /\ seeks' = seeks + 1
    /\ UNCHANGED <<harness, ty, key, nonce, fill, overflow_checks, calls, dispatch>>

TryApplyKeystream(n) ==
    /\ Live
    /\ calls < MaxCalls
    /\ \E r \in {try_apply_keystream(cipher.state, filled(n), ty.Rounds)} :
           /\ cipher' = [state |-> r.self]
           /\ ret' = Call("try_apply_keystream", n, r.res, <<>>)
           /\ data' = r.data
           /\ pos' = IF r.res = "Ok" THEN After(pos, n) ELSE pos
           /\ run' = IF r.res = "Ok"
                     THEN [run EXCEPT !.out = @ \o r.data, !.oks = @ + 1]
                     ELSE run
    /\ pre' = Pre(cipher, pos)
    /\ calls' = calls + 1
    /\ UNCHANGED <<harness, ty, key, nonce, fill, overflow_checks, seeks, dispatch>>

CurrentPos ==
    /\ Live
    /\ \E r \in {current_pos(ty, cipher)} :
           ret' = Call("current_pos", <<>>, IF r.panic THEN "panic" ELSE "Ok", r.val)
    /\ data' = <<>>
    /\ pre' = Pre(cipher, pos)
    /\ UNCHANGED <<harness, ty, key, nonce, fill, overflow_checks, cipher, pos, run,
                   seeks, calls, dispatch>>

Next ==
    \/ New
    \/ \E ct \in harness.offsets : Seek(ct)
    \/ \E n \in harness.lens : TryApplyKeystream(n)
    \/ CurrentPos

Spec == Init /\ [][Next]_vars

\* Construction alone, over every type, key and nonce of the tests.
InitNew ==
    \E t \in Types : \E ky \in Keys : \E n \in Nonces(t.NonceSize) :
        InitOf(Harness("new", Fixture(t, ky, n), 0, {TRUE}, {}, {}))

SpecNew == InitNew /\ [][New]_vars

\* The refills alone: a cipher constructed and sought to the start of a
\* block, then refill_narrow and refill_wide applied to its state.  data
\* holds the bytes of the words the refill wrote.
InitRefill ==
    \E f \in RefillFixtures : \E blockct \in RefillBlocks(f.ty) :
        /\ harness = Harness("refill", f, 0, BOOLEAN, {mul_BLOCK64(blockct)}, {})
        /\ ty = f.ty
        /\ key = f.key
        /\ nonce = f.nonce
        /\ fill = 0
        /\ overflow_checks \in BOOLEAN
        /\ cipher = seek(f.ty, new(f.ty, f.key, f.nonce), mul_BLOCK64(blockct)).self
        /\ ret = Call("seek", mul_BLOCK64(blockct), "Ok", <<>>)
        /\ data = <<>>
        /\ pre = Pre(new(f.ty, f.key, f.nonce), u64_from(0))
        /\ pos = mul_BLOCK64(blockct)
        /\ run = Run(cipher, TRUE, mul_BLOCK64(blockct), <<>>, 0)
        /\ seeks = 1
        /\ calls = 0
        /\ dispatch = NoDispatch

Refill(op, r) ==
    /\ cipher' = [state |-> [cipher.state EXCEPT !.state = r.self]]
    /\ ret' = Call(op, <<>>, IF r.panic THEN "panic" ELSE "Ok", <<>>)
    /\ data' = bytes_of(r.words)
    /\ pre' = Pre(cipher, pos)
    /\ calls' = calls + 1
    /\ UNCHANGED <<harness, ty, key, nonce, fill, overflow_checks, pos, run, seeks, dispatch>>

RefillNarrow ==
    /\ Live
    /\ calls < MaxRefills
    /\ \E r \in {refill_narrow(cipher.state.state, ty.Rounds)} : Refill("refill_narrow", r)

RefillWide ==
    /\ Live
    /\ calls < MaxRefills
    /\ \E r \in {refill_wide(cipher.state.state, ty.Rounds)} : Refill("refill_wide", r)

NextRefill == RefillNarrow \/ RefillWide

SpecRefill == InitRefill /\ [][NextRefill]_vars

(***************************************************************************)
(* impl_dispatch! (lib.rs 136-218): the dispatch of refill_wide and         *)
(* refill_narrow.  Where the build has runtime dispatch (std, x86_64 and a  *)
(* SIMD feature), each of the two has a process-wide `static ref IMPL`      *)
(* that lazy_static initializes with dispatch_init() on first use; anywhere *)
(* else the function calls its $fn_impl directly.  Threads here call the    *)
(* two functions, each thread on a cipher of its own.                       *)
(***************************************************************************)
\* The threads, and the most refills one thread calls.
NThreads == 3
MaxDispatchCalls == 1
Threads == 1..NThreads

\* The two uses of the macro (lib.rs 335-336).
Widths == {"refill_wide", "refill_narrow"}

\* The target features dispatch_init asks for, and the features the CPUs of
\* the runs have: each has those of the CPUs before it.
Features == {"avx2", "avx", "sse4.1", "ssse3"}
Cpus ==
    {{}, {"ssse3"}, {"sse4.1", "ssse3"}, {"avx", "sse4.1", "ssse3"}, Features}

\* dispatch_init (lib.rs 159-215): the first feature detected, in this order.
dispatch_init(cpu) ==
    IF "avx2" \in cpu THEN "refill_avx2"
    ELSE IF "avx" \in cpu THEN "refill_avx"
    ELSE IF "sse4.1" \in cpu THEN "refill_sse4"
    ELSE IF "ssse3" \in cpu THEN "refill_ssse3"
    ELSE "refill_fallback"

\* The once-initialization of a lazy static is "incomplete" until a thread
\* enters its initializer, "running" while that thread initializes it and
\* "complete" from then on.  This one lets a thread enter the initializer
\* whenever the static is not complete, to test that DispatchOnce depends on
\* one thread alone entering.
once_enters_unless_complete(st) == st # "complete"

\* A thread that finds the static incomplete enters the initializer; one
\* that finds it running waits; one that finds it complete reads the value.
once_enters(st) == st = "incomplete"
once_complete(st) == st = "complete"

\* A thread's place in a call of one of the two functions: where it is, the
\* function, and the pointer it holds.
At(at, fn, val) == [at |-> at, fn |-> fn, val |-> val]
Idle == At("idle", "none", "none")

\* Before any call: no static is initialized, its storage is unset.
InitDispatch ==
    /\ harness = Harness("dispatch", chacha20_case_1, 0, {FALSE}, {}, {})
    /\ ty = chacha20_case_1.ty
    /\ key = chacha20_case_1.key
    /\ nonce = chacha20_case_1.nonce
    /\ fill = 0
    /\ overflow_checks = FALSE
    /\ cipher = NoCipher
    /\ ret = Call("none", <<>>, "Ok", <<>>)
    /\ data = <<>>
    /\ pre = Pre(NoCipher, u64_from(0))
    /\ pos = u64_from(0)
    /\ run = Run(NoCipher, FALSE, u64_from(0), <<>>, 0)
    /\ seeks = 0
    /\ calls = 0
    /\ \E runtime \in BOOLEAN : \E cpu \in Cpus :
           dispatch = [runtime |-> runtime,
                       cpu |-> cpu,
                       once |-> [w \in Widths |-> "incomplete"],
                       IMPL |-> [w \in Widths |-> "unset"],
                       inits |-> [w \in Widths |-> 0],
                       stores |-> [w \in Widths |-> 0],
                       pc |-> [t \in Threads |-> Idle],
                       seen |-> [t \in Threads |-> [w \in Widths |-> "none"]],
                       left |-> [t \in Threads |-> MaxDispatchCalls]]

Dispatched(d) ==
    /\ dispatch' = d
    /\ UNCHANGED <<harness, ty, key, nonce, fill, overflow_checks, cipher, ret, data, pre,
                   pos, run, seeks, calls>>

\* fn $fn(&mut self, ...) is called (lib.rs 146, 157).  Without runtime
\* dispatch it is self.$fn_impl(drounds, words) and no pointer is read.
DispatchCall(t, w) ==
    /\ dispatch.pc[t].at = "idle"
    /\ dispatch.left[t] > 0
    /\ Dispatched([dispatch EXCEPT !.pc[t] = IF dispatch.runtime
                                                THEN At("deref", w, "none")
                                                ELSE At("call", w, "direct")])

\* IMPL is dereferenced (lib.rs 217): the thread enters the initializer, or
\* reads the pointer of a complete static; while another thread is in the
\* initializer it waits.
Deref(t) ==
    /\ dispatch.pc[t].at = "deref"
    /\ \E w \in {dispatch.pc[t].fn} :
           \/ /\ once_enters(dispatch.once[w])
              /\ Dispatched([dispatch EXCEPT !.once[w] = "running",
                                              !.pc[t] = At("init", w, "none")])
           \/ /\ ~once_enters(dispatch.once[w])
              /\ once_complete(dispatch.once[w])
              /\ Dispatched([dispatch EXCEPT !.pc[t] = At("call", w, dispatch.IMPL[w])])

\* The initializer runs dispatch_init() (lib.rs 157-159).
DispatchInit(t) ==
    /\ dispatch.pc[t].at = "init"
    /\ \E w \in {dispatch.pc[t].fn} :
           Dispatched([dispatch EXCEPT !.inits[w] = @ + 1,
                                       !.pc[t] = At("store", w, dispatch_init(dispatch.cpu))])

\* The value is written into the static's storage, a plain write that a read
\* racing with it would find partly written.
Store(t) ==
    /\ dispatch.pc[t].at = "store"
    /\ \E w \in {dispatch.pc[t].fn} :
           Dispatched([dispatch EXCEPT !.IMPL[w] = "torn",
                                       !.pc[t] = At("publish", w, dispatch.pc[t].val)])

\* The write ends and the static becomes complete; the initializing thread
\* goes on with the pointer.
Publish(t) ==
    /\ dispatch.pc[t].at = "publish"
    /\ \E w \in {dispatch.pc[t].fn} :
           Dispatched([dispatch EXCEPT !.IMPL[w] = dispatch.pc[t].val,
                                       !.stores[w] = @ + 1,
                                       !.once[w] = "complete",
                                       !.pc[t] = At("call", w, dispatch.pc[t].val)])

\* unsafe { IMPL(self, drounds, words) } (lib.rs 217), or the direct call
\* (lib.rs 147): the function the thread holds is called.
Invoke(t) ==
    /\ dispatch.pc[t].at = "call"
    /\ \E w \in {dispatch.pc[t].fn} :
           Dispatched([dispatch EXCEPT !.seen[t][w] = dispatch.pc[t].val,
                                       !.left[t] = @ - 1,
                                       !.pc[t] = Idle])

NextDispatch ==
    \E t \in Threads :
        \/ \E w \in Widths : DispatchCall(t, w)
        \/ Deref(t)
        \/ DispatchInit(t)
        \/ Store(t)
        \/ Publish(t)
        \/ Invoke(t)

SpecDispatch == InitDispatch /\ [][NextDispatch]_vars

(***************************************************************************)
(* The properties.                                                         *)
(***************************************************************************)
TryCall == ret.op = "try_apply_keystream"
IsIetf == ty.NonceSize = 12
zero == u32_from(0)

\* Whether a call of n bytes from the offset p ends after the horizon.
EndsAfterHorizon(p, n) == lt64(HORIZON, After(p, n))

\* The four bytes of s from the 0-based index i, read little-endian.
LE(s, i) == <<s[i + 1] + 256 * s[i + 2], s[i + 3] + 256 * s[i + 4]>>

\* C1: chunking invariance.  Whenever the Ok calls since construction or the
\* last seek are two or more, one call with all their bytes, made from the
\* state the first of them started from, is Ok and yields their data,
\* concatenated.
ChunkingInvariance ==
    (TryCall /\ ret.res = "Ok" /\ run.oks >= 2) =>
        \E r \in {try_apply_keystream(run.start.state, filled(Len(run.out)), ty.Rounds)} :
            r.res = "Ok" /\ r.data = run.out

\* C2: seek equivalence and history independence.  The first Ok call of n
\* bytes after a seek(x), whatever came before the seek, yields the data that
\* a newly constructed cipher with the same key and nonce yields for n bytes
\* after x bytes were applied to it.
SeekEquivalence ==
    (/\ TryCall /\ ret.res = "Ok" /\ run.sought /\ run.oks = 1
     /\ lt64(run.origin, u64_from(BUFSZ))) =>
        \E a \in {try_apply_keystream(new(ty, key, nonce).state,
                                      filled(run.origin[1]), ty.Rounds)} :
            /\ a.res = "Ok"
            /\ \E b \in {try_apply_keystream(a.self, filled(ret.arg), ty.Rounds)} :
                   b.res = "Ok" /\ b.data = data

\* C3: horizon refusal.  On the IETF cipher a call with non-empty data that
\* ends after offset 2^32 * 64 returns Err, leaves the data and the offset as
\* they were, and any following call has the result and the data it would
\* have had without the refused call.
HorizonRefusal ==
    (IsIetf /\ TryCall /\ ret.arg > 0 /\ EndsAfterHorizon(pre.pos, ret.arg)) =>
        /\ ret.res = "Err"
        /\ data = filled(ret.arg)
        /\ pos = pre.pos
        /\ \A m \in harness.lens :
               \E p \in {try_apply_keystream(pre.cipher.state, filled(m), ty.Rounds)} :
                   \E q \in {try_apply_keystream(cipher.state, filled(m), ty.Rounds)} :
                       p.res = q.res /\ p.data = q.data

\* C4: no false refusal.  On the IETF cipher a call that ends at or before
\* offset 2^32 * 64 returns Ok.
NoFalseRefusal ==
    (IsIetf /\ TryCall /\ ~EndsAfterHorizon(pre.pos, ret.arg)) => ret.res = "Ok"

\* C5: on the IETF cipher lanes 1, 2 and 3 of state.d hold the nonce given at
\* construction in every state.
NonceLanesKept ==
    (IsIetf /\ cipher # NoCipher) =>
        /\ extract(cipher.state.state.d, 1) = LE(nonce, 0)
        /\ extract(cipher.state.state.d, 2) = LE(nonce, 4)
        /\ extract(cipher.state.state.d, 3) = LE(nonce, 8)

\* C6: seek(ct) panics exactly when the cipher is the IETF one and
\* ct > 2^32 * 64; a seek that panics leaves the cipher as it was; seek to
\* 2^32 * 64 on the IETF cipher leaves len = 0.
SeekPanics ==
    ret.op = "seek" =>
        /\ (ret.res = "panic") <=> (IsIetf /\ lt64(HORIZON, ret.arg))
        /\ ret.res = "panic" => cipher = pre.cipher
        /\ (IsIetf /\ ret.arg = HORIZON) => cipher.state.len = u64_from(0)

\* A seek that panicked on a cipher that had served a call before.
SeekPanicsWitness ==
    ret.op = "seek" /\ ret.res = "panic" /\ calls > 0 /\ pre.cipher # new(ty, key, nonce)

\* C7 as stated: after an Err, state.d, out, have, len and fresh are as they
\* were when the call began.
ErrCommitsNothing ==
    (TryCall /\ ret.res = "Err") =>
        /\ cipher.state.state.d = pre.cipher.state.state.d
        /\ cipher.state.out = pre.cipher.state.out
        /\ cipher.state.have = pre.cipher.state.have
        /\ cipher.state.len = pre.cipher.state.len
        /\ cipher.state.fresh = pre.cipher.state.fresh

\* C7, amended: after an Err the data, fresh, b and c are as they were when
\* the call began.  If the call began with have >= 0, so is the whole cipher.
\* If it began with have < 0, the lazy fill is committed: the counter of
\* state.d is one more, out holds the block of the old counter, have is 64
\* more and len is one less.
ErrCommitsOnlyLazyFill ==
    (TryCall /\ ret.res = "Err") =>
        /\ data = filled(ret.arg)
        /\ cipher.state.fresh = pre.cipher.state.fresh
        /\ cipher.state.state.b = pre.cipher.state.state.b
        /\ cipher.state.state.c = pre.cipher.state.state.c
        /\ pre.cipher.state.have >= 0 => cipher = pre.cipher
        /\ pre.cipher.state.have < 0 =>
               /\ cipher.state.have = pre.cipher.state.have + BLOCK
               /\ cipher.state.len = wrapping_sub(pre.cipher.state.len, u64_from(1))
               /\ cipher.state.state.d =
                      with_blockct(pre.cipher.state.state.d,
                                   blockct_plus(pre.cipher.state.state.d, 1))
               /\ cipher.state.out =
                      bytes_of(refill_narrow(pre.cipher.state.state, ty.Rounds).words)

\* An Err from a call that began with have < 0.
ErrCommitsOnlyLazyFillWitness ==
    TryCall /\ ret.res = "Err" /\ pre.cipher.state.have < 0 /\ cipher # pre.cipher

\* C8: current_pos returns the offset of the next keystream byte.
CurrentPosReturnsOffset ==
    ret.op = "current_pos" => (ret.res = "Ok" /\ ret.val = pos)

\* C9: the IETF cipher of test_ietf yields the block of RFC 7539 section
\* 2.4.2 as bytes 64..128 of the keystream, applied from offset 0 and applied
\* after seek(64).
Rfc7539Block1 ==
    (/\ ty = Ietf /\ key = test_ietf_key /\ nonce = test_ietf_nonce /\ fill = 0
     /\ TryCall /\ ret.res = "Ok") =>
        /\ (~run.sought /\ Len(run.out) >= 2 * BLOCK) =>
               SubSeq(run.out, BLOCK + 1, 2 * BLOCK) = expected_rfc_7539
        /\ (run.sought /\ run.origin = u64_from(BLOCK) /\ Len(run.out) >= BLOCK) =>
               SubSeq(run.out, 1, BLOCK) = expected_rfc_7539

\* 64 bytes applied after seek(64), on a cipher that had applied 128 bytes
\* from offset 0 before.
Rfc7539Block1Witness ==
    /\ ty = Ietf /\ key = test_ietf_key /\ nonce = test_ietf_nonce /\ fill = 0
    /\ TryCall /\ ret.res = "Ok" /\ ret.arg = BLOCK
    /\ run.sought /\ run.origin = u64_from(BLOCK)
    /\ data = expected_rfc_7539
    /\ calls = 2 /\ seeks = 1

\* C10: the state construction yields.  8-byte nonce: d = [0, 0, nonce 0..4,
\* nonce 4..8], len = 0, fresh.  12-byte nonce: d = [0, nonce 0..4, nonce
\* 4..8, nonce 8..12], len = 2^32, not fresh.  24-byte nonce: d = [0, 0, nonce
\* 16..20, nonce 20..24], len = 0, fresh.  Always have = 0, and unless the
\* nonce has 24 bytes b and c are the key's words 0..3 and 4..7.  Every word
\* is read little-endian.
ConstructionState ==
    ret.op = "new" =>
        /\ cipher.state.have = 0
        /\ ty.NonceSize = 8 =>
               /\ cipher.state.state.d = <<zero, zero, LE(nonce, 0), LE(nonce, 4)>>
               /\ cipher.state.len = u64_from(0)
               /\ cipher.state.fresh
        /\ ty.NonceSize = 12 =>
               /\ cipher.state.state.d = <<zero, LE(nonce, 0), LE(nonce, 4), LE(nonce, 8)>>
               /\ cipher.state.len = <<0, 0, 1, 0>>
               /\ ~cipher.state.fresh
        /\ ty.NonceSize = 24 =>
               /\ cipher.state.state.d = <<zero, zero, LE(nonce, 16), LE(nonce, 20)>>
               /\ cipher.state.len = u64_from(0)
               /\ cipher.state.fresh
        /\ ty.NonceSize # 24 =>
               /\ cipher.state.state.b = <<LE(key, 0), LE(key, 4), LE(key, 8), LE(key, 12)>>
               /\ cipher.state.state.c = <<LE(key, 16), LE(key, 20), LE(key, 24), LE(key, 28)>>

\* A 12-byte-nonce cipher constructed with a nonce whose first word is not 0.
ConstructionStateWitness ==
    ret.op = "new" /\ ty.NonceSize = 12 /\ extract(cipher.state.state.d, 1) # zero

\* The bytes of n narrow refills in a row, the first of them r.
RECURSIVE NarrowRefills(_, _)
NarrowRefills(r, n) ==
    IF n = 1 THEN bytes_of(r.words)
    ELSE bytes_of(r.words) \o NarrowRefills(refill_narrow(r.self, ty.Rounds), n - 1)

\* C11: in refill_wide, whatever the 64-bit counter of lanes 0 and 1, the
\* counter row of block i that goes into the rounds and the one added back
\* are both state.d with the counter plus i, carried from lane 0 into lane 1;
\* and the 256 bytes of a wide refill are those of four narrow refills in a
\* row from the same state.
WideRowsAgree ==
    cipher # NoCipher =>
        /\ \A i \in 0..3 :
               \E row \in {with_blockct(cipher.state.state.d,
                                         blockct_plus(cipher.state.state.d, i))} :
                   /\ wide_rows_in(cipher.state.state.d)[i + 1] = row
                   /\ wide_rows_out(cipher.state.state.d)[i + 1] = row
        /\ (ret.op = "refill_wide" /\ ret.res = "Ok") =>
               data = NarrowRefills(refill_narrow(pre.cipher.state.state, ty.Rounds),
                                    BUFBLOCKS)

\* The 64-bit counter of lanes 0 and 1 of a ChaCha state.
Counter64(state) == u64_of_lanes(extract(state.d, 0), extract(state.d, 1))

\* C12: a refill_narrow that returns has added exactly 1, and a refill_wide
\* exactly 4, to the 64-bit counter of lanes 0 and 1 of state.d, with the
\* carry from the low word into the high word, and has left state.b, state.c
\* and lanes 2 and 3 of state.d as they were.  A refill does not return only
\* where the build checks overflow and that addition overflows 64 bits.
RefillAdvance ==
    ret.op \in {"refill_narrow", "refill_wide"} =>
        \E n \in {IF ret.op = "refill_narrow" THEN 1 ELSE BUFBLOCKS} :
            /\ ret.res = "Ok" =>
                   /\ Counter64(cipher.state.state) =
                          wrapping_add64(Counter64(pre.cipher.state.state), u64_from(n))
                   /\ cipher.state.state.b = pre.cipher.state.state.b
                   /\ cipher.state.state.c = pre.cipher.state.state.c
                   /\ extract(cipher.state.state.d, 2) = extract(pre.cipher.state.state.d, 2)
                   /\ extract(cipher.state.state.d, 3) = extract(pre.cipher.state.state.d, 3)
            /\ ret.res # "Ok" =>
                   /\ overflow_checks
                   /\ lt64(wrapping_add64(Counter64(pre.cipher.state.state), u64_from(n)),
                           u64_from(n))

\* A wide refill that carried from the low word into the high word, after a
\* narrow one.
RefillAdvanceWitness ==
    /\ ret.op = "refill_wide" /\ ret.res = "Ok" /\ calls = 2
    /\ extract(pre.cipher.state.state.d, 0) = <<LIMB - 2, LIMB - 1>>
    /\ extract(cipher.state.state.d, 0) = <<2, 0>>
    /\ extract(cipher.state.state.d, 1) = <<2, 0>>

\* C13: len never underflows unseen.  No call of try_apply_keystream takes 1
\* from a len of 0 in its lazy fill, the one subtraction from len whose
\* borrow is not looked at; so after every call that returns, len is what it
\* was less the blocks the call accounted for, with no wrap.
LenNeverUnderflows ==
    TryCall =>
        /\ ~(pre.cipher.state.have < 0 /\ pre.cipher.state.len = u64_from(0))
        /\ (ret.res # "panic" /\ ~pre.cipher.state.fresh) =>
               ~lt64(pre.cipher.state.len, cipher.state.len)

\* C14: fresh holds only where no keystream byte was applied to the caller's
\* data since construction or the last seek, and that seek, if any, was to
\* block 0.  Once a call has applied bytes of a generated block, the block of
\* a lazy fill included, fresh is false.
FreshOnlyUnconsumed ==
    (cipher # NoCipher /\ cipher.state.fresh) =>
        /\ Len(run.out) = 0
        /\ run.sought => div_BLOCK64(run.origin) = u64_from(0)

\* C15: the range of have.  In every state -64 < have <= 64.  After every
\* try_apply_keystream that returned, Ok or Err, 0 <= have.  have < 0 only
\* after a seek to an offset ct that is no multiple of 64, before any call
\* since has returned, and then have = -(ct mod 64).  Every call converts to
\* unsigned a have, the lazy fill's 64 added, that is not negative.
HaveRange ==
    cipher # NoCipher =>
        /\ -BLOCK < cipher.state.have /\ cipher.state.have <= BLOCK
        /\ (TryCall /\ ret.res # "panic") => 0 <= cipher.state.have
        /\ cipher.state.have < 0 =>
               /\ run.sought /\ run.oks = 0
               /\ cipher.state.have = -(run.origin[1] % BLOCK)
        /\ TryCall =>
               0 <= pre.cipher.state.have
                      + (IF pre.cipher.state.have < 0 THEN BLOCK ELSE 0)

\* A call that found have < 0 and returned Ok with bytes of the block left.
HaveRangeWitness ==
    /\ TryCall /\ ret.res = "Ok" /\ ret.arg > 0
    /\ pre.cipher.state.have < 0 /\ cipher.state.have > 0

\* The block counter state.d holds: lane 0 on the IETF cipher, lanes 0 and 1
\* on the others.
Counter(state) ==
    IF IsIetf THEN u64_of_lanes(extract(state.d, 0), zero) ELSE Counter64(state)

\* The counter before c: c - 1 as it wraps at the counter's width.
Pred(c) ==
    IF IsIetf THEN u64_of_lanes(low_u32(Before(c, 1)), zero) ELSE Before(c, 1)

\* Block j of the keystream of the key and the nonce given at construction.
KeystreamBlock(j) ==
    bytes_of(refill_narrow(IF IsIetf
                           THEN seek32(new(ty, key, nonce).state.state, low_u32(j))
                           ELSE seek64(new(ty, key, nonce).state.state, j),
                           ty.Rounds).words)

\* The bytes of the block in out that a call finds ready: have, the lazy
\* fill's 64 added.
HaveReady(self) == IF self.have < 0 THEN self.have + BLOCK ELSE self.have

\* C16: whenever have > 0, out holds the keystream block whose index is the
\* block counter of state.d less one, and the next byte of the keystream is
\* out[64 - have].  A call that ends on a wide refill or on a narrow chunk of
\* 64 bytes leaves have = 0.
ResidueIsBlock ==
    (cipher # NoCipher /\ ret.res # "panic") =>
        /\ cipher.state.have > 0 =>
               /\ cipher.state.out = KeystreamBlock(Pred(Counter(cipher.state.state)))
               /\ mod_BLOCK64(pos) = BLOCK - cipher.state.have
        /\ (/\ TryCall /\ ret.res = "Ok" /\ ret.arg > HaveReady(pre.cipher.state)
            /\ (ret.arg - HaveReady(pre.cipher.state)) % BLOCK = 0) =>
               cipher.state.have = 0

\* C17: the frame of seek.  A seek leaves state.b, state.c, out and lanes 2
\* and 3 of state.d as they were, and on the IETF cipher lane 1 and fresh as
\* well; it runs no refill: the counter it leaves is ct / 64, not one more.
SeekFrame ==
    ret.op = "seek" =>
        /\ cipher.state.state.b = pre.cipher.state.state.b
        /\ cipher.state.state.c = pre.cipher.state.state.c
        /\ cipher.state.out = pre.cipher.state.out
        /\ extract(cipher.state.state.d, 2) = extract(pre.cipher.state.state.d, 2)
        /\ extract(cipher.state.state.d, 3) = extract(pre.cipher.state.state.d, 3)
        /\ IsIetf =>
               /\ extract(cipher.state.state.d, 1) = extract(pre.cipher.state.state.d, 1)
               /\ cipher.state.fresh = pre.cipher.state.fresh
        /\ ret.res = "Ok" =>
               Counter(cipher.state.state) =
                   IF IsIetf THEN u64_of_lanes(low_u32(div_BLOCK64(ret.arg)), zero)
                   ELSE div_BLOCK64(ret.arg)

\* A seek on an IETF cipher whose nonce's first word is not 0, whose out holds
\* a generated block and whose counter the seek changed.
SeekFrameWitness ==
    /\ ret.op = "seek" /\ ret.res = "Ok" /\ IsIetf
    /\ extract(cipher.state.state.d, 1) # zero
    /\ pre.cipher.state.out # Block_default
    /\ cipher.state.state.d # pre.cipher.state.state.d

\* C18: a try_apply_keystream call on empty data that finds have >= 0 returns
\* Ok and leaves the whole cipher, state.d, out, have, len and fresh, as it
\* was: it generates no block, also where len = 0 on the IETF cipher.
EmptyCallNoOp ==
    (TryCall /\ ret.arg = 0 /\ pre.cipher.state.have >= 0) =>
        /\ ret.res = "Ok"
        /\ data = <<>>
        /\ cipher = pre.cipher

\* An empty call on the IETF cipher at the horizon, where len = 0.
EmptyCallNoOpWitness ==
    /\ TryCall /\ ret.arg = 0 /\ ret.res = "Ok" /\ IsIetf
    /\ pre.cipher.state.have >= 0
    /\ pre.cipher.state.len = u64_from(0)
    /\ pre.pos = HORIZON

\* C19: after a seek to an offset that is no multiple of 64, a call on empty
\* data returns Ok and cannot be observed: any call made after it has the
\* result, the data and the cipher it would have had without it.
EmptyCallAfterSeek ==
    (TryCall /\ ret.arg = 0 /\ pre.cipher.state.have < 0) =>
        /\ ret.res = "Ok"
        /\ data = <<>>
        /\ \A m \in harness.lens :
               try_apply_keystream(pre.cipher.state, filled(m), ty.Rounds)
                   = try_apply_keystream(cipher.state, filled(m), ty.Rounds)

\* x - n for an integer n of either sign, as it wraps at 2^64.
Minus(x, n) == IF n >= 0 THEN Before(x, n) ELSE After(x, -n)

\* An offset modulo the bytes the counter of the cipher spans: 2^32 * 64 on
\* the IETF cipher, 2^64 on the others.
InSpan(x) == IF IsIetf THEN <<x[1], x[2], x[3] % BLOCK64, 0>> ELSE x

max(a, b) == IF a > b THEN a ELSE b

\* C20 as stated: in every state the offset of the next keystream byte is
\* the block counter of state.d times 64, less max(have, 0).
PositionOfCounterAndMaxHave ==
    cipher # NoCipher =>
        pos = Minus(mul_BLOCK64(Counter(cipher.state.state)), max(cipher.state.have, 0))

\* C20, amended: in every state that calls which returned have led to, the
\* offset of the next keystream byte is the block counter of state.d times
\* 64, less have, have taken with its sign; on the IETF cipher, whose counter
\* is lane 0, modulo 2^32 * 64.
PositionOfCounterAndHave ==
    (cipher # NoCipher /\ ret.res # "panic") =>
        InSpan(pos) = InSpan(Minus(mul_BLOCK64(Counter(cipher.state.state)),
                                   cipher.state.have))

\* Right after a seek to an offset that is no multiple of 64, made after a
\* call that left have > 0.
PositionOfCounterAndHaveWitness ==
    /\ ret.op = "seek" /\ ret.res = "Ok"
    /\ cipher.state.have < 0 /\ pre.cipher.state.have > 0

\* The n blocks of the keystream from block j on, and the n bytes of the
\* keystream from the offset p on.
RECURSIVE KeystreamBlocks(_, _)
KeystreamBlocks(j, n) ==
    IF n = 0 THEN <<>> ELSE KeystreamBlock(j) \o KeystreamBlocks(After(j, 1), n - 1)

Keystream(p, n) ==
    SubSeq(KeystreamBlocks(div_BLOCK64(p), (mod_BLOCK64(p) + n + BLOCK - 1) \div BLOCK),
           mod_BLOCK64(p) + 1, mod_BLOCK64(p) + n)

\* C21: on a 64-bit-counter cipher that construction or a seek into block 0
\* left with len = 0 and fresh, the first call with non-empty data returns
\* Ok, applies the keystream from the cipher's offset on, and leaves fresh
\* false.
FirstCallOnFresh ==
    (/\ ~IsIetf /\ TryCall /\ ret.arg > 0
     /\ pre.cipher.state.fresh /\ pre.cipher.state.len = u64_from(0)
     /\ run.oks <= 1) =>
        /\ ret.res = "Ok"
        /\ data = xor_zip(filled(ret.arg), Keystream(pre.pos, ret.arg))
        /\ ~cipher.state.fresh

\* chacha20_case_1: ChaCha20 with the test's key and nonce, seek(0x3fffffff70)
\* and then one call on 256 bytes.
Chacha20Case1 ==
    /\ ty = ChaCha20 /\ key = chacha20_case_1_key /\ nonce = chacha20_case_1_nonce
    /\ fill = 0
    /\ TryCall /\ ret.arg = BUFSZ
    /\ pre.pos = Before(HORIZON, 144)
    /\ pre.cipher.state.have < 0

\* The bytes of a call's data that its wide chunks serve.
WideServed(self, n) == wide_len(n - min(HaveReady(self), n))

\* C22 as stated: in chacha20_case_1 the call is served by a wide refill.
ServedByWideRefill ==
    Chacha20Case1 =>
        /\ ret.res = "Ok"
        /\ WideServed(pre.cipher.state, ret.arg) >= BUFSZ

\* C22, amended: in chacha20_case_1 the call returns Ok with the test's
\* expected bytes and no wide refill serves it.  The lazy fill generates block
\* 0xFFFFFFFD, whose last 16 bytes are used; the 240 bytes left are fewer
\* than a wide chunk, and four narrow refills serve them, blocks 0xFFFFFFFE,
\* 0xFFFFFFFF, 2^32 and 2^32 + 1: the counter ends at 2^32 + 2, out holds
\* block 2^32 + 1 and have = 16.
ServedByNarrowRefills ==
    Chacha20Case1 =>
        /\ ret.res = "Ok"
        /\ data = expected_chacha20_case_1
        /\ Counter64(pre.cipher.state.state) = <<LIMB - 3, LIMB - 1, 0, 0>>
        /\ HaveReady(pre.cipher.state) = 16
        /\ WideServed(pre.cipher.state, ret.arg) = 0
        /\ Counter64(cipher.state.state) = <<2, 0, 1, 0>>
        /\ cipher.state.out = KeystreamBlock(<<1, 0, 1, 0>>)
        /\ cipher.state.have = 16
        /\ data = xor_zip(filled(ret.arg), Keystream(pre.pos, ret.arg))

\* chacha20_case_1 in a build that checks overflow.
ServedByNarrowRefillsWitness ==
    Chacha20Case1 /\ ret.res = "Ok" /\ overflow_checks /\ seeks = 1 /\ calls = 1

\* C23: the memoized dispatch.  For each refill width the pointer is written
\* at most once and the selection by CPU feature runs at most once, however
\* many calls follow; every pointer a thread calls through, and every
\* pointer any thread has called through, is the one selection yields, never
\* the unset or the partly written storage; and the storage, once a static
\* is complete, holds that pointer.
DispatchOnce ==
    dispatch # NoDispatch =>
        \A w \in Widths :
            /\ dispatch.stores[w] <= 1
            /\ dispatch.inits[w] <= 1
            /\ once_complete(dispatch.once[w]) =>
                   dispatch.IMPL[w] = dispatch_init(dispatch.cpu)
            /\ \A t \in Threads :
                   /\ dispatch.seen[t][w] \in
                          {"none", IF dispatch.runtime
                                   THEN dispatch_init(dispatch.cpu) ELSE "direct"}
                   /\ (dispatch.runtime /\ dispatch.pc[t].at = "call") =>
                          dispatch.pc[t].val = dispatch_init(dispatch.cpu)
                   /\ \A u \in Threads :
                          (dispatch.seen[t][w] # "none" /\ dispatch.seen[u][w] # "none")
                              => dispatch.seen[t][w] = dispatch.seen[u][w]

\* Two threads wait for a third that is writing the pointer of the same
\* width, on a CPU with AVX and no AVX2.
DispatchOnceWitness ==
    /\ dispatch # NoDispatch /\ dispatch.runtime
    /\ dispatch.cpu = {"avx", "sse4.1", "ssse3"}
    /\ \E w \in Widths :
           /\ dispatch.IMPL[w] = "torn"
           /\ \E t \in Threads :
                  /\ dispatch.pc[t] = At("publish", w, "refill_avx")
                  /\ \A u \in Threads \ {t} : dispatch.pc[u] = At("deref", w, "none")

\* len and the block counter of a Buffer agree: on the IETF cipher
\* len + c = 2^32 for a c in 0..2^32 whose low 32 bits are lane 0 of
\* state.d; on the others len is minus the counter of lanes 0 and 1, modulo
\* 2^64.
BudgetOf(self) ==
    IF IsIetf
    THEN /\ ~lt64(SMALL_LEN, self.len)
         /\ low_u32(wrapping_sub(SMALL_LEN, self.len)) = extract(self.state.d, 0)
    ELSE self.len = wrapping_sub(u64_from(0), Counter64(self.state))

\* The blocks a call generated, by the counter of lanes 0 and 1, are the
\* units it took from len.
BlocksPaid(before, after) ==
    wrapping_sub(Counter64(after.state), Counter64(before.state))
        = wrapping_sub(before.len, after.len)

\* C24 as stated: in every state len and the counter agree; every block a
\* call generated is matched by one unit taken from len; and a call that
\* failed took nothing from len.
BudgetTracksCounter ==
    cipher # NoCipher =>
        /\ BudgetOf(cipher.state)
        /\ TryCall => BlocksPaid(pre.cipher.state, cipher.state)
        /\ (TryCall /\ ret.res = "Err") => cipher.state.len = pre.cipher.state.len

\* C24, amended: in every state that calls which returned have led to, len
\* and the counter agree and every block a call generated is matched by one
\* unit taken from len; a call that failed took from len the one unit of its
\* lazy fill's block if it began with have < 0, and nothing otherwise.
BudgetTracksCounterReturned ==
    (cipher # NoCipher /\ ret.res # "panic") =>
        /\ BudgetOf(cipher.state)
        /\ TryCall => BlocksPaid(pre.cipher.state, cipher.state)
        /\ (TryCall /\ ret.res = "Err") =>
               cipher.state.len =
                   Minus(pre.cipher.state.len,
                         IF pre.cipher.state.have < 0 THEN 1 ELSE 0)

\* A call that failed after its lazy fill, at the last block of the IETF
\* cipher.
BudgetTracksCounterReturnedWitness ==
    /\ TryCall /\ ret.res = "Err" /\ IsIetf
    /\ pre.cipher.state.have < 0
    /\ cipher.state.len = u64_from(0)
    /\ pre.cipher.state.len = u64_from(1)

\* The bytes a call on n bytes takes from the block of its offset p: those
\* from p to the end of the block, or n if fewer.
FromFirstBlock(p, n) == min(n, BLOCK - mod_BLOCK64(p))

\* C25: no stale residue across a seek.  After every seek that returned
\* have <= 0; and the first call after a seek that applies bytes applies, up
\* to the end of the block of the seek's offset, the bytes of the block that
\* a refill generates from the state the seek left, from the offset's place
\* in the block on, whatever out held before the seek.
NoStaleResidue ==
    /\ (ret.op = "seek" /\ ret.res = "Ok") => cipher.state.have <= 0
    /\ (/\ TryCall /\ ret.res = "Ok" /\ ret.arg > 0
        /\ run.sought /\ Len(run.out) = ret.arg) =>
           SubSeq(data, 1, FromFirstBlock(run.origin, ret.arg)) =
               xor_zip(filled(FromFirstBlock(run.origin, ret.arg)),
                       SubSeq(bytes_of(refill_narrow(run.start.state.state,
                                                     ty.Rounds).words),
                              mod_BLOCK64(run.origin) + 1,
                              mod_BLOCK64(run.origin)
                                  + FromFirstBlock(run.origin, ret.arg)))

\* A call that applies bytes after a seek into a block, the seek made on a
\* cipher whose out held a block generated before the seek.
NoStaleResidueWitness ==
    /\ TryCall /\ ret.res = "Ok" /\ ret.arg > 0
    /\ run.sought /\ Len(run.out) = ret.arg
    /\ mod_BLOCK64(run.origin) # 0
    /\ calls = 2
    /\ run.start.state.out # Block_default
    /\ cipher.state.out # run.start.state.out

====
